---- MODULE Spec2Model ----
(***************************************************************************)
(* Collaborative-session lifecycle of CodeCraft (Convex back end).         *)
(*                                                                         *)
(* Every Convex mutation runs as one serializable transaction, and a       *)
(* mutation that throws commits none of its writes: each handler is one    *)
(* atomic action, and a throwing handler changes only `response`.          *)
(*                                                                         *)
(* Time is the value Date.now() returns, counted in ticks of five minutes  *)
(* (one tick = INACTIVE_THRESHOLD of the source); the handlers only        *)
(* compare and add timestamps.  EXPIRY_DELAY is kept longer than           *)
(* INACTIVE_THRESHOLD, as in the source, but shortened so that an expiry   *)
(* is reached within MaxTime.                                              *)
(***************************************************************************)
EXTENDS Integers, Sequences, FiniteSets, TLC

VARIABLES
    now,           \* Date.now()
    nextId,        \* next fresh _id of table collaborativeSessions
    sessions,      \* table collaborativeSessions: _id -> document
    participants,  \* table sessionParticipants, in insertion (= index) order
    operations,    \* table codeOperations, in insertion order
    messages,      \* table sessionMessages, in insertion order
    clients,       \* the mounted CollaborativeEditor components, by user id
    savedSessions, \* table savedSessions, in insertion order: _id = position
    response       \* name and outcome of the last handler that ran

vars == <<now, nextId, sessions, participants, operations, messages, clients,
         savedSessions, response>>

----------------------------------------------------------------------------
(* Bounds of the model *)

MaxTime == 4
CodeMaxTime == 3
QuietFrom == 1
MaxInFlight == 1
MaxOperations == 1
MaxMessages == 1
MaxSessions == 4
MaxSavedFrom == 10

(* Inputs.  No handler treats a user id specially, so the creator is always  *)
(* "A".  A handler reads and writes the documents of one session only (the   *)
(* sweeps loop over the sessions one at a time), so the lifecycle is         *)
(* explored on the first session id; ids are never reused.                   *)

Users == {"A", "B", "C"}
Creators == {"A"}
MaxUsersChoices == {2, 5}
SessionIds == {1}
ContentUsers == {"A", "B"}
CodeChoices == {"a", "b"}
NoOperation == "undefined"
OperationChoices == {NoOperation, "insert"}
MessageChoices == {<<"h", "i">>, <<" ", "h", "i", " ">>}
Permissions == {"read", "write"}
EditorTexts == {"", "a", "b"}
LoadChoices == {1}
EditedSession == 1
NoTimer == "<no timeout>"
NotLoaded == "<undefined>"

(* Program constants *)

INACTIVE_THRESHOLD == 1
EXPIRY_DELAY == 2
SESSION_LIMIT == 2
DEFAULT_MAX_USERS == 5
SAVE_LIMIT == 10
Undefined == 0

\* getDefaultCodeForLanguage(language): the code a new session starts with
DefaultCode == "a"

----------------------------------------------------------------------------
(* Helpers on arrays and on the participant table *)

Range(seq) == {seq[i] : i \in 1..Len(seq)}

\* [...new Set(arr)]: first occurrences, in order
RECURSIVE Dedup(_)
Dedup(seq) ==
    IF seq = <<>> THEN <<>>
    ELSE LET front == Dedup(SubSeq(seq, 1, Len(seq) - 1))
             x == seq[Len(seq)]
         IN IF x \in Range(front) THEN front ELSE Append(front, x)

\* arr.filter(id => id !== userId)
Without(seq, userId) == SelectSeq(seq, LAMBDA id : id # userId)

\* the rows of one session (.withIndex("by_session_id")), as positions
RowsOf(sessionId) ==
    {i \in 1..Len(participants) : participants[i].sessionId = sessionId}

\* mutant of FirstRow: the lookup never finds the row
FirstRow_Misses(sessionId, userId) == 0

\* .withIndex("by_session_and_user").first(): position of the row, 0 for null
FirstRow(sessionId, userId) ==
    LET hits == {i \in RowsOf(sessionId) : participants[i].userId = userId}
    IN IF hits = {} THEN 0 ELSE CHOOSE i \in hits : \A j \in hits : i <= j

\* mutant of OwnedBy: only the sessions that are still active are counted
OwnedBy_ActiveOnly(userId) ==
    {s \in DOMAIN sessions : sessions[s].creatorId = userId /\ sessions[s].isActive}

\* by_creator_id: the sessions a user created
OwnedBy(userId) == {s \in DOMAIN sessions : sessions[s].creatorId = userId}

Respond(op, result) == response' = [op |-> op, result |-> result]

----------------------------------------------------------------------------
(* Pure parts of the handlers *)

\* mutant of IsActiveNow: the boundary now - lastSeen = INACTIVE_THRESHOLD is stale
IsActiveNow_Strict(p, t) ==
    IF p.lastSeen # Undefined
    THEN t - p.lastSeen < INACTIVE_THRESHOLD
    ELSE t - p.lastActive < INACTIVE_THRESHOLD

\* the liveness test of the sweeps: lastSeen, or lastActive when lastSeen is absent
IsActiveNow(p, t) ==
    IF p.lastSeen # Undefined
    THEN t - p.lastSeen <= INACTIVE_THRESHOLD
    ELSE t - p.lastActive <= INACTIVE_THRESHOLD

\* the per-participant step of both sweeps: patch the row only when the flag changes
SweepRow(p, t) ==
    IF p.isActive # IsActiveNow(p, t)
    THEN [p EXCEPT !.isActive = IsActiveNow(p, t),
                   !.lastActive = IF IsActiveNow(p, t) THEN @ ELSE t]
    ELSE p

\* activeUserIds of a sweep: the live users of a session, in row order
RECURSIVE LiveUserIds(_, _, _)
LiveUserIds(rows, sessionId, t) ==
    IF rows = <<>> THEN <<>>
    ELSE LET p == rows[Len(rows)]
             front == LiveUserIds(SubSeq(rows, 1, Len(rows) - 1), sessionId, t)
         IN IF p.sessionId = sessionId /\ IsActiveNow(p, t)
            THEN Append(front, p.userId) ELSE front

\* mutant of SessionFull: one user more than maxUsers is let in
SessionFull_OffByOne(session, userId) ==
    /\ Len(session.activeUsers) > session.maxUsers
    /\ userId \notin Range(session.activeUsers)

\* mutant of SessionFull: a member is refused like anybody else
SessionFull_NoBypass(session, userId) ==
    Len(session.activeUsers) >= session.maxUsers

\* joinSession: the capacity test
SessionFull(session, userId) ==
    /\ Len(session.activeUsers) >= session.maxUsers
    /\ userId \notin Range(session.activeUsers)

\* mutant of Reactivated: the deadline is not cleared
Reactivated_KeepsExpiry(session, t) ==
    IF session.status = "scheduled_for_deletion" \/ ~session.isActive
    THEN [session EXCEPT !.status = "active", !.isActive = TRUE, !.lastActivity = t]
    ELSE session

\* joinSession: "Allow joining inactive sessions - they will be reactivated"
Reactivated(session, t) ==
    IF session.status = "scheduled_for_deletion" \/ ~session.isActive
    THEN [session EXCEPT !.status = "active", !.isActive = TRUE,
                         !.expiresAt = Undefined, !.lastActivity = t]
    ELSE session

\* mutant of LeaveStillActive: the stored flag alone decides
LeaveStillActive_FlagOnly(p, t) == p.isActive

\* leaveSession: the participants that still count after the leave
LeaveStillActive(p, t) ==
    /\ p.isActive
    /\ IF p.lastSeen # Undefined
       THEN t - p.lastSeen <= INACTIVE_THRESHOLD
       ELSE t - p.lastActive <= INACTIVE_THRESHOLD

\* mutant of NewSession: the creator is not entered in activeUsers
NewSession_Empty(creatorId, maxUsers, t) ==
    [creatorId |-> creatorId, isActive |-> TRUE, activeUsers |-> <<>>,
     maxUsers |-> maxUsers, lastActivity |-> t, status |-> "active",
     expiresAt |-> Undefined, code |-> DefaultCode]

\* a new session document (createSession, loadSavedSession)
NewSession(creatorId, maxUsers, t) ==
    [creatorId |-> creatorId, isActive |-> TRUE, activeUsers |-> <<creatorId>>,
     maxUsers |-> maxUsers, lastActivity |-> t, status |-> "active",
     expiresAt |-> Undefined, code |-> DefaultCode]

\* a new participant row
NewParticipant(sessionId, userId, t, lastSeen) ==
    [sessionId |-> sessionId, userId |-> userId, permission |-> "write",
     lastActive |-> t, lastSeen |-> lastSeen, isActive |-> TRUE]

----------------------------------------------------------------------------
Init ==
    /\ now = 1
    /\ nextId = 1
    /\ sessions = <<>>
    /\ participants = <<>>
    /\ operations = <<>>
    /\ messages = <<>>
    /\ clients = <<>>
    /\ savedSessions = <<>>
    /\ response = [op |-> "none", result |-> "ok"]

\* the clock advances between handlers
TickTo(limit) ==
    /\ now < limit
    /\ now' = now + 1
    /\ UNCHANGED <<nextId, sessions, participants, operations, messages, clients, savedSessions, response>>

Tick == TickTo(MaxTime)

\* the handler of createSession
createSessionHandler(creatorId, maxUsers) ==
    /\ IF Cardinality(OwnedBy(creatorId)) >= SESSION_LIMIT
       THEN /\ Respond("createSession", "session limit")
            /\ UNCHANGED <<nextId, sessions, participants>>
       ELSE /\ sessions' = (nextId :> NewSession(creatorId, maxUsers, now)) @@ sessions
            /\ participants' =
                   Append(participants, NewParticipant(nextId, creatorId, now, now))
            /\ nextId' = nextId + 1
            /\ Respond("createSession", "ok")
    /\ UNCHANGED now
    /\ UNCHANGED <<operations, messages, clients, savedSessions>>

\* createSession while the explored session ids last
createSession(creatorId, maxUsers) ==
    /\ nextId \in SessionIds
    /\ createSessionHandler(creatorId, maxUsers)

\* loadSavedSession once the saved session has been read and may be loaded:
\* the limit check and the two inserts; `session` is the document to insert
loadSavedSessionHandler(userId, session) ==
    /\ IF Cardinality(OwnedBy(userId)) >= SESSION_LIMIT
       THEN /\ Respond("loadSavedSession", "session limit")
            /\ UNCHANGED <<nextId, sessions, participants>>
       ELSE /\ sessions' = (nextId :> session) @@ sessions
            /\ participants' =
                   Append(participants, NewParticipant(nextId, userId, now, Undefined))
            /\ nextId' = nextId + 1
            /\ Respond("loadSavedSession", "ok")
    /\ UNCHANGED now
    /\ UNCHANGED <<operations, messages, clients, savedSessions>>

\* the saved session is an input: one the user may load, with its maxUsers
loadSavedSession(userId, maxUsers) ==
    /\ nextId \in SessionIds
    /\ loadSavedSessionHandler(userId, NewSession(userId, maxUsers, now))

\* the document loadSavedSession inserts for a row of table savedSessions
LoadedSession(savedSessionId, userId, t) ==
    LET saved == savedSessions[savedSessionId]
        session == NewSession(userId,
                              IF saved.maxUsers # 0 THEN saved.maxUsers
                              ELSE DEFAULT_MAX_USERS, t)
    IN [f \in DOMAIN session \cup {"originalSavedSessionId"} |->
           IF f = "originalSavedSessionId" THEN savedSessionId
           ELSE IF f = "code" THEN saved.code
           ELSE session[f]]

\* loadSavedSession of a row of table savedSessions
loadSavedSessionById(savedSessionId, userId) ==
    IF savedSessionId \notin DOMAIN savedSessions
    THEN /\ Respond("loadSavedSession", "Saved session not found")
         /\ UNCHANGED <<now, nextId, sessions, participants>>
         /\ UNCHANGED <<operations, messages, clients, savedSessions>>
    ELSE IF savedSessions[savedSessionId].userId # userId
            /\ savedSessions[savedSessionId].isPrivate
    THEN /\ Respond("loadSavedSession", "Permission denied")
         /\ UNCHANGED <<now, nextId, sessions, participants>>
         /\ UNCHANGED <<operations, messages, clients, savedSessions>>
    ELSE loadSavedSessionHandler(userId, LoadedSession(savedSessionId, userId, now))

\* mutant of Aborted: the writes made before the throw stay
Aborted_KeepsWrites(before, written) == written

\* a mutation that throws commits none of the writes it made before the throw
Aborted(before, written) == before

joinSession(sessionId, userId) ==
    /\ IF sessionId \notin DOMAIN sessions
       THEN /\ Respond("joinSession", "Session not found")
            /\ UNCHANGED <<sessions, participants>>
       ELSE LET session == sessions[sessionId]
                row == FirstRow(sessionId, userId)
            IN IF SessionFull(session, userId)
               THEN \* the throw comes after the reactivating patch
                    /\ Respond("joinSession", "Session is full")
                    /\ sessions' = Aborted(sessions,
                                           [sessions EXCEPT ![sessionId] =
                                               Reactivated(session, now)])
                    /\ UNCHANGED participants
               ELSE /\ participants' =
                           IF row # 0
                           THEN [participants EXCEPT ![row].isActive = TRUE,
                                                     ![row].lastActive = now,
                                                     ![row].lastSeen = now]
                           ELSE Append(participants,
                                       NewParticipant(sessionId, userId, now, now))
                    /\ sessions' =
                           [sessions EXCEPT ![sessionId] =
                               [Reactivated(session, now) EXCEPT
                                   !.activeUsers =
                                       Dedup(Append(session.activeUsers, userId)),
                                   !.lastActivity = now]]
                    /\ Respond("joinSession", "ok")
    /\ UNCHANGED <<now, nextId>>
    /\ UNCHANGED <<operations, messages, clients, savedSessions>>

leaveSession(sessionId, userId) ==
    /\ IF sessionId \notin DOMAIN sessions
       THEN /\ Respond("leaveSession", "Session not found")
            /\ UNCHANGED <<sessions, participants>>
       ELSE LET session == sessions[sessionId]
                row == FirstRow(sessionId, userId)
                left == IF row # 0
                        THEN [participants EXCEPT ![row].isActive = FALSE,
                                                  ![row].lastActive = now,
                                                  ![row].lastSeen = now]
                        ELSE participants
                updated == [session EXCEPT
                               !.activeUsers = Without(session.activeUsers, userId),
                               !.lastActivity = now]
                activeParticipants ==
                    {i \in RowsOf(sessionId) : LeaveStillActive(left[i], now)}
            IN /\ participants' = left
               /\ sessions' =
                      [sessions EXCEPT ![sessionId] =
                          IF activeParticipants = {}
                          THEN [updated EXCEPT !.status = "scheduled_for_deletion",
                                               !.isActive = FALSE,
                                               !.expiresAt = now + EXPIRY_DELAY]
                          ELSE updated]
               /\ Respond("leaveSession", "ok")
    /\ UNCHANGED <<now, nextId>>
    /\ UNCHANGED <<operations, messages, clients, savedSessions>>

\* mutant of Beat: the heartbeat does not stamp lastSeen
Beat_NoSeen(row, t) ==
    [participants EXCEPT ![row].lastActive = t, ![row].isActive = TRUE]

\* mutant of Beat: every heartbeat inserts a row of its own, as a first join does
Beat_Inserts(row, t) ==
    Append(participants,
           [participants[row] EXCEPT !.lastActive = t, !.lastSeen = t,
                                     !.isActive = TRUE])

\* the write half of a heartbeat on the participant row
Beat(row, t) ==
    [participants EXCEPT ![row].lastActive = t, ![row].lastSeen = t,
                         ![row].isActive = TRUE]

participantHeartbeat(sessionId, userId) ==
    /\ LET row == FirstRow(sessionId, userId)
       IN IF row = 0
          THEN /\ Respond("participantHeartbeat", "ok")
               /\ UNCHANGED <<sessions, participants>>
          ELSE IF sessionId \notin DOMAIN sessions
          THEN \* ctx.db.patch of a missing document throws
               /\ Respond("participantHeartbeat", "error")
               /\ UNCHANGED <<sessions, participants>>
          ELSE LET session == [sessions[sessionId] EXCEPT !.lastActivity = now]
               IN /\ participants' = Beat(row, now)
                  /\ sessions' =
                         [sessions EXCEPT ![sessionId] =
                             IF session.status = "scheduled_for_deletion"
                             THEN [session EXCEPT !.status = "active",
                                                  !.isActive = TRUE,
                                                  !.expiresAt = Undefined]
                             ELSE session]
                  /\ Respond("participantHeartbeat", "ok")
    /\ UNCHANGED <<now, nextId>>
    /\ UNCHANGED <<operations, messages, clients, savedSessions>>

updateUserActivity(sessionId, userId) ==
    /\ LET row == FirstRow(sessionId, userId)
       IN IF row = 0
          THEN /\ Respond("updateUserActivity", "ok")
               /\ UNCHANGED <<sessions, participants>>
          ELSE IF sessionId \notin DOMAIN sessions
          THEN /\ Respond("updateUserActivity", "error")
               /\ UNCHANGED <<sessions, participants>>
          ELSE LET session == [sessions[sessionId] EXCEPT !.lastActivity = now]
               IN /\ participants' = Beat(row, now)
                  /\ sessions' =
                         [sessions EXCEPT ![sessionId] =
                             IF session.status \in {"scheduled_for_deletion", "inactive"}
                             THEN [session EXCEPT !.status = "active",
                                                  !.isActive = TRUE,
                                                  !.expiresAt = Undefined]
                             ELSE session]
                  /\ Respond("updateUserActivity", "ok")
    /\ UNCHANGED <<now, nextId>>
    /\ UNCHANGED <<operations, messages, clients, savedSessions>>

\* the participant table after a sweep of the sessions in `swept`
SweptRows(swept, t) ==
    [i \in 1..Len(participants) |->
        IF participants[i].sessionId \in swept
        THEN SweepRow(participants[i], t) ELSE participants[i]]

\* mutant of SweepSession: scheduling forgets to empty activeUsers
SweepSession_KeepsUsers(session, sessionId, t) ==
    LET activeUserIds == LiveUserIds(participants, sessionId, t)
    IN IF Len(activeUserIds) = 0
       THEN [session EXCEPT !.status = "scheduled_for_deletion",
                            !.isActive = FALSE,
                            !.expiresAt = t + EXPIRY_DELAY,
                            !.lastActivity = t]
       ELSE [session EXCEPT !.activeUsers = activeUserIds, !.lastActivity = t]

\* checkAllSessionsActivity: what the cron sweep writes on one session
SweepSession(session, sessionId, t) ==
    LET activeUserIds == LiveUserIds(participants, sessionId, t)
    IN IF Len(activeUserIds) = 0
       THEN [session EXCEPT !.status = "scheduled_for_deletion",
                            !.isActive = FALSE,
                            !.activeUsers = <<>>,
                            !.expiresAt = t + EXPIRY_DELAY,
                            !.lastActivity = t]
       ELSE [session EXCEPT !.activeUsers = activeUserIds, !.lastActivity = t]

\* mutant of ActiveSessions: the sweep visits every session
ActiveSessions_All == DOMAIN sessions

\* mutant of ActiveSessions: the sweep finds no session to visit
ActiveSessions_None == {}

\* checkAllSessionsActivity: .withIndex("by_is_active", q => q.eq("isActive", true))
ActiveSessions == {s \in DOMAIN sessions : sessions[s].isActive}

checkAllSessionsActivity ==
    /\ participants' = SweptRows(ActiveSessions, now)
    /\ sessions' = [s \in DOMAIN sessions |->
                       IF s \in ActiveSessions
                       THEN SweepSession(sessions[s], s, now) ELSE sessions[s]]
    /\ Respond("checkAllSessionsActivity", "ok")
    /\ UNCHANGED <<now, nextId>>
    /\ UNCHANGED <<operations, messages, clients, savedSessions>>

\* checkSessionActivity: what the per-session check writes on the session
CheckedSession(session, sessionId, t) ==
    LET activeUserIds == LiveUserIds(participants, sessionId, t)
    IN IF Len(activeUserIds) = 0
       THEN IF session.status # "scheduled_for_deletion"
            THEN [session EXCEPT !.status = "scheduled_for_deletion",
                                 !.isActive = FALSE,
                                 !.activeUsers = <<>>,
                                 !.expiresAt = t + EXPIRY_DELAY,
                                 !.lastActivity = t]
            ELSE session
       ELSE [(IF session.status # "active"
              THEN [session EXCEPT !.status = "active", !.isActive = TRUE,
                                   !.expiresAt = Undefined]
              ELSE session)
             EXCEPT !.activeUsers = activeUserIds, !.lastActivity = t]

checkSessionActivity(sessionId) ==
    /\ participants' = SweptRows({sessionId}, now)
    /\ IF sessionId \notin DOMAIN sessions
       THEN /\ Respond("checkSessionActivity", "Session not found")
            /\ UNCHANGED sessions
       ELSE /\ sessions' = [sessions EXCEPT ![sessionId] =
                               CheckedSession(sessions[sessionId], sessionId, now)]
            /\ Respond("checkSessionActivity", "ok")
    /\ UNCHANGED <<now, nextId>>
    /\ UNCHANGED <<operations, messages, clients, savedSessions>>

\* mutant of Expired: a session is kept one tick past its deadline
Expired_Late(session, t) ==
    /\ session.status = "scheduled_for_deletion"
    /\ session.expiresAt # Undefined
    /\ session.expiresAt + 1 < t

\* mutant of Expired: a session is deleted at its deadline already
Expired_Inclusive(session, t) ==
    /\ session.status = "scheduled_for_deletion"
    /\ session.expiresAt # Undefined
    /\ session.expiresAt <= t

\* cleanupExpiredSessions: the filter on all sessions
Expired(session, t) ==
    /\ session.status = "scheduled_for_deletion"
    /\ session.expiresAt # Undefined
    /\ session.expiresAt < t

cleanupExpiredSessions ==
    LET expiredSessions == {s \in DOMAIN sessions : Expired(sessions[s], now)}
    IN /\ participants' =
              SelectSeq(participants, LAMBDA p : p.sessionId \notin expiredSessions)
       /\ operations' =
              SelectSeq(operations, LAMBDA o : o.sessionId \notin expiredSessions)
       /\ messages' =
              SelectSeq(messages, LAMBDA m : m.sessionId \notin expiredSessions)
       /\ sessions' = [s \in DOMAIN sessions \ expiredSessions |-> sessions[s]]
       /\ Respond("cleanupExpiredSessions", "ok")
       /\ UNCHANGED <<now, nextId, clients, savedSessions>>

\* updateSession: the owner edits the session; the form always sends maxUsers
updateSession(sessionId, userId, maxUsers) ==
    /\ IF sessionId \notin DOMAIN sessions
       THEN /\ Respond("updateSession", "Session not found")
            /\ UNCHANGED sessions
       ELSE IF sessions[sessionId].creatorId # userId
       THEN /\ Respond("updateSession", "not the creator")
            /\ UNCHANGED sessions
       ELSE /\ sessions' = [sessions EXCEPT ![sessionId].maxUsers = maxUsers,
                                            ![sessionId].lastActivity = now]
            /\ Respond("updateSession", "ok")
    /\ UNCHANGED <<now, nextId, participants>>
    /\ UNCHANGED <<operations, messages, clients, savedSessions>>

\* mutant of MayDelete: any caller may delete
MayDelete_Anyone(session, userId) == TRUE

\* deleteSession: "Only the session creator can delete the session"
MayDelete(session, userId) == session.creatorId = userId

\* mutant of RowsLeft: the rows of the deleted session are left behind
RowsLeft_All(rows, sessionId) == rows

\* deleteSession: a table after the rows of the session have been deleted
RowsLeft(rows, sessionId) == SelectSeq(rows, LAMBDA r : r.sessionId # sessionId)

deleteSession(sessionId, userId) ==
    /\ IF sessionId \notin DOMAIN sessions
       THEN /\ Respond("deleteSession", "Session not found")
            /\ UNCHANGED <<sessions, participants, operations, messages>>
       ELSE IF ~MayDelete(sessions[sessionId], userId)
       THEN /\ Respond("deleteSession", "not the creator")
            /\ UNCHANGED <<sessions, participants, operations, messages>>
       ELSE /\ participants' = RowsLeft(participants, sessionId)
            /\ messages' = RowsLeft(messages, sessionId)
            /\ operations' = RowsLeft(operations, sessionId)
            /\ sessions' = [s \in DOMAIN sessions \ {sessionId} |-> sessions[s]]
            /\ Respond("deleteSession", "ok")
    /\ UNCHANGED <<now, nextId, clients, savedSessions>>

\* the saved rows of a user (.withIndex("by_user_id")), as positions
SavedBy(userId) ==
    {k \in DOMAIN savedSessions : savedSessions[k].userId = userId}

\* .withIndex("by_user_and_original_session"): the saves of a session by a user
SavesOf(userId, sessionId) ==
    {k \in SavedBy(userId) : savedSessions[k].originalSessionId = sessionId}

\* saveSessionToCollection: the session was loaded from a saved session that
\* still exists and belongs to the caller ("smart re-save")
IsReSave(session, userId) ==
    /\ "originalSavedSessionId" \in DOMAIN session
    /\ session.originalSavedSessionId \in DOMAIN savedSessions
    /\ savedSessions[session.originalSavedSessionId].userId = userId

\* saveSessionToCollection; the session manager always sends isPrivate: true
saveSessionToCollection(sessionId, userId) ==
    /\ IF sessionId \notin DOMAIN sessions
       THEN /\ Respond("saveSessionToCollection", "Session not found")
            /\ UNCHANGED savedSessions
       ELSE LET session == sessions[sessionId]
            IN IF session.creatorId # userId /\ FirstRow(sessionId, userId) = 0
               THEN /\ Respond("saveSessionToCollection", "not a participant")
                    /\ UNCHANGED savedSessions
               ELSE IF IsReSave(session, userId)
               THEN /\ savedSessions' =
                           [savedSessions EXCEPT
                               ![session.originalSavedSessionId].code = session.code,
                               ![session.originalSavedSessionId].updatedAt = now,
                               ![session.originalSavedSessionId].isPrivate = TRUE]
                    /\ Respond("saveSessionToCollection", "updated")
               ELSE IF Cardinality(SavedBy(userId)) >= SAVE_LIMIT
               THEN /\ Respond("saveSessionToCollection", "SAVE_LIMIT_EXCEEDED")
                    /\ UNCHANGED savedSessions
               ELSE IF SavesOf(userId, sessionId) # {}
               THEN /\ Respond("saveSessionToCollection", "DUPLICATE_SAVE")
                    /\ UNCHANGED savedSessions
               ELSE /\ savedSessions' =
                           Append(savedSessions,
                                  [userId |-> userId, originalSessionId |-> sessionId,
                                   code |-> session.code, updatedAt |-> now,
                                   isPrivate |-> TRUE, maxUsers |-> session.maxUsers])
                    /\ Respond("saveSessionToCollection", "ok")
    /\ UNCHANGED <<now, nextId, sessions, participants, operations, messages, clients>>

\* getSession (query): the session with its active participants, or the error
getSession(sessionId) ==
    /\ IF sessionId \notin DOMAIN sessions
       THEN Respond("getSession", "Session not found")
       ELSE Respond("getSession", "ok")
    /\ UNCHANGED <<now, nextId, sessions, participants, operations, messages, clients, savedSessions>>

\* mutant of PermissionDenied: only a missing participant row is refused
PermissionDenied_RowOnly(row) == row = 0

\* updateSessionCode: "Check if user has write permission"
PermissionDenied(row) == row = 0 \/ participants[row].permission # "write"

\* mutant of CodeChanged: every call counts as a change
CodeChanged_Always(session, code) == TRUE

\* updateSessionCode: "Only update if the code has actually changed"
CodeChanged(session, code) == session.code # code

\* mutant of StoredCode: the change is merged into the stored text, not put in its place
StoredCode_Merges(session, code) ==
    IF CodeChanged(session, code) /\ session.code # DefaultCode
    THEN session.code ELSE code

\* updateSessionCode: the code the session holds after an accepted call
StoredCode(session, code) == IF CodeChanged(session, code) THEN code ELSE session.code

\* updateSessionCode: lastActive is rewritten at most every 5 seconds, an interval
\* shorter than one tick of the clock
TouchLastActive(p, t) == IF t - p.lastActive > 0 THEN [p EXCEPT !.lastActive = t] ELSE p

\* the handler of updateSessionCode, as one transaction on the tables
updateSessionCodeHandler(sessionId, userId, code, operation) ==
    /\ IF sessionId \notin DOMAIN sessions
       THEN /\ Respond("updateSessionCode", "Session not found")
            /\ UNCHANGED <<sessions, participants, operations>>
       ELSE LET session == sessions[sessionId]
                row == FirstRow(sessionId, userId)
            IN IF PermissionDenied(row)
               THEN /\ Respond("updateSessionCode", "Permission denied")
                    /\ UNCHANGED <<sessions, participants, operations>>
               ELSE /\ (CodeChanged(session, code) /\ operation # NoOperation)
                          => Len(operations) < MaxOperations
                    /\ sessions' =
                           IF CodeChanged(session, code)
                           THEN [sessions EXCEPT
                                    ![sessionId].code = StoredCode(session, code),
                                    ![sessionId].lastActivity = now]
                           ELSE sessions
                    /\ operations' =
                           IF CodeChanged(session, code) /\ operation # NoOperation
                           THEN Append(operations,
                                       [sessionId |-> sessionId, userId |-> userId,
                                        operation |-> operation, timestamp |-> now])
                           ELSE operations
                    /\ participants' =
                           [participants EXCEPT
                               ![row] = TouchLastActive(participants[row], now)]
                    /\ Respond("updateSessionCode", "ok")
    /\ UNCHANGED <<now, nextId, messages, savedSessions>>

\* updateSessionCode called directly
updateSessionCode(sessionId, userId, code, operation) ==
    /\ updateSessionCodeHandler(sessionId, userId, code, operation)
    /\ UNCHANGED clients

\* message.trim(): the text without its leading and trailing blanks
RECURSIVE Trim(_)
Trim(message) ==
    IF message = <<>> THEN <<>>
    ELSE IF Head(message) = " " THEN Trim(Tail(message))
    ELSE IF message[Len(message)] = " " THEN Trim(SubSeq(message, 1, Len(message) - 1))
    ELSE message

sendChatMessage(sessionId, userId, message) ==
    /\ LET row == FirstRow(sessionId, userId)
       IN IF row = 0 \/ ~participants[row].isActive
          THEN /\ Respond("sendChatMessage", "Permission denied")
               /\ UNCHANGED <<sessions, messages>>
          ELSE IF sessionId \notin DOMAIN sessions
          THEN \* ctx.db.patch of a missing document throws
               /\ Respond("sendChatMessage", "error")
               /\ UNCHANGED <<sessions, messages>>
          ELSE /\ Len(messages) < MaxMessages
               /\ messages' =
                      Append(messages,
                             [sessionId |-> sessionId, userId |-> userId,
                              message |-> Trim(message), timestamp |-> now])
               /\ sessions' = [sessions EXCEPT ![sessionId].lastActivity = now]
               /\ Respond("sendChatMessage", "ok")
    /\ UNCHANGED <<now, nextId, participants, operations, clients, savedSessions>>

updateUserPermission(sessionId, targetUserId, newPermission, requesterId) ==
    /\ IF sessionId \notin DOMAIN sessions
       THEN /\ Respond("updateUserPermission", "Session not found")
            /\ UNCHANGED participants
       ELSE IF sessions[sessionId].creatorId # requesterId
       THEN /\ Respond("updateUserPermission", "not the creator")
            /\ UNCHANGED participants
       ELSE LET row == FirstRow(sessionId, targetUserId)
            IN IF row = 0
               THEN /\ Respond("updateUserPermission", "User not found in session")
                    /\ UNCHANGED participants
               ELSE /\ participants' =
                           [participants EXCEPT ![row].permission = newPermission]
                    /\ Respond("updateUserPermission", "ok")
    /\ UNCHANGED <<now, nextId, sessions, operations, messages, clients, savedSessions>>

----------------------------------------------------------------------------
Next ==
    \/ Tick
    \/ \E u \in Creators, m \in MaxUsersChoices : createSession(u, m)
    \/ \E u \in Creators, m \in MaxUsersChoices : loadSavedSession(u, m)
    \/ \E s \in SessionIds, u \in Users : joinSession(s, u)
    \/ \E s \in SessionIds, u \in Users : leaveSession(s, u)
    \/ \E s \in SessionIds, u \in Users : participantHeartbeat(s, u)
    \/ \E s \in SessionIds, u \in Users : updateUserActivity(s, u)
    \/ \E s \in SessionIds : checkSessionActivity(s)
    \/ checkAllSessionsActivity
    \/ cleanupExpiredSessions
    \/ \E s \in SessionIds, u \in Users, m \in MaxUsersChoices : updateSession(s, u, m)

Spec == Init /\ [][Next]_vars

(* The shared code and the permissions of a session: two users, the default  *)
(* maxUsers, a short clock, no periodic job.                                   *)
CodeNext ==
    \/ TickTo(CodeMaxTime)
    \/ \E u \in Creators : createSession(u, DEFAULT_MAX_USERS)
    \/ \E s \in SessionIds, u \in ContentUsers : joinSession(s, u)
    \/ \E s \in SessionIds, u \in ContentUsers : leaveSession(s, u)
    \/ \E s \in SessionIds, u \in ContentUsers : participantHeartbeat(s, u)
    \/ \E s \in SessionIds, u \in ContentUsers, c \in CodeChoices,
          o \in OperationChoices : updateSessionCode(s, u, c, o)
    \/ \E s \in SessionIds, u \in ContentUsers, p \in Permissions, r \in ContentUsers :
          updateUserPermission(s, u, p, r)

CodeSpec == Init /\ [][CodeNext]_vars

(* The teardown of a session that has chat messages and logged operations.    *)
TeardownNext ==
    \/ Tick
    \/ \E u \in Creators : createSession(u, DEFAULT_MAX_USERS)
    \/ \E s \in SessionIds, u \in ContentUsers : joinSession(s, u)
    \/ \E s \in SessionIds, u \in ContentUsers : leaveSession(s, u)
    \/ \E s \in SessionIds, u \in Creators, c \in CodeChoices :
          updateSessionCode(s, u, c, "insert")
    \/ \E s \in SessionIds, u \in ContentUsers, m \in MessageChoices :
          sendChatMessage(s, u, m)
    \/ \E s \in SessionIds : getSession(s)
    \/ checkAllSessionsActivity
    \/ cleanupExpiredSessions

TeardownSpec == Init /\ [][TeardownNext]_vars

(* The quota of owned sessions: two users create, load, leave and delete     *)
(* sessions while session ids up to MaxSessions last.                        *)
LimitNext ==
    \/ \E u \in ContentUsers, m \in MaxUsersChoices :
          nextId <= MaxSessions /\ createSessionHandler(u, m)
    \/ \E u \in ContentUsers, m \in MaxUsersChoices :
          nextId <= MaxSessions /\ loadSavedSessionHandler(u, NewSession(u, m, now))
    \/ \E s \in 1..MaxSessions, u \in ContentUsers : leaveSession(s, u)
    \/ \E s \in 1..MaxSessions, u \in ContentUsers : deleteSession(s, u)

LimitSpec == Init /\ [][LimitNext]_vars

(* The collection of saved sessions: the owner keeps one session at a time,   *)
(* created or loaded from the first saved one, saves it and deletes it; a     *)
(* second user tries to save it too.                                          *)
SaveNext ==
    \/ \E u \in Creators :
          /\ nextId <= MaxSavedFrom /\ OwnedBy(u) = {}
          /\ createSessionHandler(u, DEFAULT_MAX_USERS)
    \/ \E k \in LoadChoices, u \in Creators :
          /\ nextId <= MaxSavedFrom /\ OwnedBy(u) = {}
          /\ loadSavedSessionById(k, u)
    \/ \E s \in 1..MaxSavedFrom, u \in Creators : deleteSession(s, u)
    \/ \E s \in 1..MaxSavedFrom, u \in ContentUsers : saveSessionToCollection(s, u)

SaveSpec == Init /\ [][SaveNext]_vars

(* Removal of a session by either road, the expiry sweep or its owner, among  *)
(* the calls of the clients that may come before and after it.                *)
RemovalNext ==
    \/ Tick
    \/ \E u \in Creators : createSession(u, DEFAULT_MAX_USERS)
    \/ \E s \in SessionIds, u \in ContentUsers : joinSession(s, u)
    \/ \E s \in SessionIds, u \in ContentUsers : leaveSession(s, u)
    \/ \E s \in SessionIds, u \in ContentUsers : participantHeartbeat(s, u)
    \/ \E s \in SessionIds, u \in ContentUsers, c \in CodeChoices :
          updateSessionCode(s, u, c, "insert")
    \/ \E s \in SessionIds, u \in ContentUsers, m \in MessageChoices :
          sendChatMessage(s, u, m)
    \/ \E s \in SessionIds, u \in ContentUsers : deleteSession(s, u)
    \/ checkAllSessionsActivity
    \/ cleanupExpiredSessions

RemovalSpec == Init /\ [][RemovalNext]_vars

(* The CollaborativeEditor component of each user of one session.  A client is *)
(*   code                  the React state shown in the editor (the local buffer)*)
(*   lastRemoteCode        the ref of the same name                              *)
(*   isUpdatingFromRemote  the ref of the same name                              *)
(*   timer                 the value the pending debounce timeout will send      *)
(*   seen                  session.code of the last getSession result delivered  *)
(*   inflight              the values of the mutations awaiting their result     *)
(* The session exists with both users as writers when the components mount.    *)

NewClient ==
    [code |-> "", lastRemoteCode |-> "", isUpdatingFromRemote |-> FALSE,
     timer |-> NoTimer, seen |-> NotLoaded, inflight |-> <<>>]

\* JavaScript truthiness of session?.code: loaded and not the empty string
Truthy(seen) == seen # NotLoaded /\ seen # ""

\* "Initialize code when session loads for the first time"
InitEffect(c) ==
    IF Truthy(c.seen) /\ c.lastRemoteCode = ""
    THEN [c EXCEPT !.code = c.seen, !.lastRemoteCode = c.seen]
    ELSE c

\* mutant of RemoteEffect: applying the remote value starts a debounce timeout
\* for it, as an edit of the user would
RemoteEffect_Schedules(c) ==
    IF /\ Truthy(c.seen)
       /\ c.seen # c.lastRemoteCode
       /\ c.seen # c.code
       /\ ~c.isUpdatingFromRemote
    THEN [c EXCEPT !.code = c.seen, !.lastRemoteCode = c.seen,
                   !.isUpdatingFromRemote = TRUE, !.timer = c.seen]
    ELSE c

\* "Handle remote code updates without interfering with local typing"; the
\* editor is mounted once the session has loaded
RemoteEffect(c) ==
    IF /\ Truthy(c.seen)
       /\ c.seen # c.lastRemoteCode
       /\ c.seen # c.code
       /\ ~c.isUpdatingFromRemote
    THEN [c EXCEPT !.code = c.seen, !.lastRemoteCode = c.seen,
                   !.isUpdatingFromRemote = TRUE]
    ELSE c

\* useQuery(getSession) delivers the stored code; both effects run in order
onSessionUpdate(userId) ==
    /\ userId \in DOMAIN clients
    /\ sessions # <<>>
    /\ clients[userId].seen # sessions[EditedSession].code
    /\ clients' = [clients EXCEPT ![userId] =
           RemoteEffect(InitEffect([@ EXCEPT !.seen = sessions[EditedSession].code]))]
    /\ UNCHANGED <<now, nextId, sessions, participants, operations, messages, savedSessions, response>>

\* the user edits the text: setCode, restart the debounce timeout; the change of
\* `code` makes the remote effect run again
handleCodeChange(userId, value) ==
    /\ userId \in DOMAIN clients
    /\ clients[userId].seen # NotLoaded
    /\ value # clients[userId].code
    /\ ~clients[userId].isUpdatingFromRemote
    /\ clients' = [clients EXCEPT ![userId] =
           RemoteEffect([@ EXCEPT !.code = value, !.timer = value])]
    /\ UNCHANGED <<now, nextId, sessions, participants, operations, messages, savedSessions, response>>

\* the debounce timeout fires: updateSessionCode({sessionId, userId, code: value})
flushTimeout(userId) ==
    /\ userId \in DOMAIN clients
    /\ clients[userId].timer # NoTimer
    /\ Len(clients[userId].inflight) < MaxInFlight
    /\ updateSessionCodeHandler(EditedSession, userId, clients[userId].timer, NoOperation)
    /\ clients' = [clients EXCEPT
           ![userId].timer = NoTimer,
           ![userId].inflight =
               IF response'.result = "ok"
               THEN Append(@, clients[userId].timer) ELSE @]

\* the awaited mutation resolves: lastRemoteCode.current = value
flushResolved(userId) ==
    /\ userId \in DOMAIN clients
    /\ clients[userId].inflight # <<>>
    /\ clients' = [clients EXCEPT
           ![userId].lastRemoteCode = Head(clients[userId].inflight),
           ![userId].inflight = Tail(@)]
    /\ UNCHANGED <<now, nextId, sessions, participants, operations, messages, savedSessions, response>>

\* the 50 ms timeout that restores the cursor: isUpdatingFromRemote.current = false
cursorRestored(userId) ==
    /\ userId \in DOMAIN clients
    /\ clients[userId].isUpdatingFromRemote
    /\ clients' = [clients EXCEPT ![userId].isUpdatingFromRemote = FALSE]
    /\ UNCHANGED <<now, nextId, sessions, participants, operations, messages, savedSessions, response>>

EditorInit ==
    /\ now = 1
    /\ nextId = EditedSession + 1
    /\ sessions = (EditedSession :>
           [NewSession("A", DEFAULT_MAX_USERS, 1) EXCEPT !.activeUsers = <<"A", "B">>])
    /\ participants = << NewParticipant(EditedSession, "A", 1, 1),
                         NewParticipant(EditedSession, "B", 1, 1) >>
    /\ operations = <<>>
    /\ messages = <<>>
    /\ clients = [u \in ContentUsers |-> NewClient]
    /\ savedSessions = <<>>
    /\ response = [op |-> "joinSession", result |-> "ok"]

EditorNext ==
    \/ \E u \in ContentUsers : onSessionUpdate(u)
    \/ \E u \in ContentUsers, v \in EditorTexts : handleCodeChange(u, v)
    \/ \E u \in ContentUsers : flushTimeout(u)
    \/ \E u \in ContentUsers : flushResolved(u)
    \/ \E u \in ContentUsers : cursorRestored(u)

EditorSpec == EditorInit /\ [][EditorNext]_vars

(* Abandoned sessions.  The clients call the back end up to time QuietFrom and *)
(* never after: no leave, no heartbeat, no unload signal.  The two periodic    *)
(* jobs of crons.ts keep running (weak fairness), and the clock, which the     *)
(* model stops at QuietHorizon, does not pass a moment at which a job has a    *)
(* session to schedule or to delete before that job has run: the jobs run      *)
(* every 10 and 30 minutes, for ever, while the model's clock is finite.       *)

\* the liveness sweep would schedule a session if it ran now
SweepDue == \E s \in ActiveSessions : LiveUserIds(participants, s, now) = <<>>

\* the expiry sweep would delete a session if it ran now
CleanupDue == \E s \in DOMAIN sessions : Expired(sessions[s], now)

QuietHorizon == QuietFrom + INACTIVE_THRESHOLD + 1 + EXPIRY_DELAY + 1

QuietTick == ~SweepDue /\ ~CleanupDue /\ TickTo(QuietHorizon)

ClientCall ==
    \/ \E u \in Creators, m \in MaxUsersChoices : createSession(u, m)
    \/ \E u \in Creators, m \in MaxUsersChoices : loadSavedSession(u, m)
    \/ \E s \in SessionIds, u \in Users : joinSession(s, u)
    \/ \E s \in SessionIds, u \in Users : leaveSession(s, u)
    \/ \E s \in SessionIds, u \in Users : participantHeartbeat(s, u)
    \/ \E s \in SessionIds, u \in ContentUsers, c \in CodeChoices :
          updateSessionCode(s, u, c, "insert")
    \/ \E s \in SessionIds, u \in ContentUsers, m \in MessageChoices :
          sendChatMessage(s, u, m)

QuietNext ==
    \/ now <= QuietFrom /\ ClientCall
    \/ QuietTick
    \/ checkAllSessionsActivity
    \/ cleanupExpiredSessions

QuietSpec ==
    /\ Init
    /\ [][QuietNext]_vars
    /\ WF_vars(QuietTick)
    /\ WF_vars(checkAllSessionsActivity)
    /\ WF_vars(cleanupExpiredSessions)

----------------------------------------------------------------------------
(* Vocabulary of the properties, stated on the stored fields *)

\* the liveness clock of a row: lastSeen, lastActive when lastSeen is absent
Clock(p) == IF p.lastSeen # Undefined THEN p.lastSeen ELSE p.lastActive

Fresh(p, t) == t - Clock(p) <= INACTIVE_THRESHOLD

Occurrences(seq, x) == Cardinality({i \in 1..Len(seq) : seq[i] = x})

Scheduled(s) == sessions[s].status = "scheduled_for_deletion"

\* the rows of the three child tables that refer to session s
ParticipantsOf(s) == SelectSeq(participants, LAMBDA p : p.sessionId = s)
MessagesOf(s) == SelectSeq(messages, LAMBDA m : m.sessionId = s)
OperationsOf(s) == SelectSeq(operations, LAMBDA o : o.sessionId = s)

\* session s and everything that refers to it is absent
Gone(s) ==
    /\ s \notin DOMAIN sessions
    /\ ParticipantsOf(s) = <<>>
    /\ MessagesOf(s) = <<>>
    /\ OperationsOf(s) = <<>>

\* session s existed once and has been deleted (ids are handed out in order)
Deleted(s) == s < nextId /\ s \notin DOMAIN sessions

\* the expiry sweep's deadline has passed for session s
PastDeadline(s) ==
    /\ Scheduled(s)
    /\ sessions[s].expiresAt # Undefined
    /\ sessions[s].expiresAt < now

\* the user ids of the rows of session s that are fresh at the present time
FreshUsers(s) == {participants[i].userId : i \in {j \in RowsOf(s) : Fresh(participants[j], now)}}

----------------------------------------------------------------------------
\* C1: a joinSession by a user who is not in activeUsers, on a session whose
\* activeUsers.length >= maxUsers, fails with "Session is full" and writes nothing,
\* whatever the status of the session.
C1_JoinFullFails ==
    [][\A s \in SessionIds, u \in Users :
          ( /\ s \in DOMAIN sessions
            /\ Len(sessions[s].activeUsers) >= sessions[s].maxUsers
            /\ u \notin Range(sessions[s].activeUsers)
            /\ joinSession(s, u) )
          => /\ response' = [op |-> "joinSession", result |-> "Session is full"]
             /\ UNCHANGED <<sessions, participants>>]_vars

\* a join was refused for capacity on a session that is scheduled for deletion
C1_Witness ==
    /\ response = [op |-> "joinSession", result |-> "Session is full"]
    /\ \E s \in DOMAIN sessions :
          /\ Scheduled(s)
          /\ Len(sessions[s].activeUsers) >= sessions[s].maxUsers

\* C2: a joinSession by a user already in activeUsers succeeds even when
\* activeUsers.length >= maxUsers, and afterwards activeUsers holds that user
\* exactly once.
C2_MemberRejoinSucceeds ==
    [][\A s \in SessionIds, u \in Users :
          ( /\ s \in DOMAIN sessions
            /\ u \in Range(sessions[s].activeUsers)
            /\ joinSession(s, u) )
          => /\ response' = [op |-> "joinSession", result |-> "ok"]
             /\ Occurrences(sessions'[s].activeUsers, u) = 1]_vars

\* a join succeeded on a session that holds more users than maxUsers (the owner
\* lowered it): only a member's rejoin can do that
C2_Witness ==
    /\ response = [op |-> "joinSession", result |-> "ok"]
    /\ \E s \in DOMAIN sessions :
          Len(sessions[s].activeUsers) > sessions[s].maxUsers

\* C3: in every reachable state activeUsers.length <= maxUsers, for every session.
C3_WithinCapacity ==
    \A s \in DOMAIN sessions : Len(sessions[s].activeUsers) <= sessions[s].maxUsers

\* C4: status = scheduled_for_deletion exactly when expiresAt is set, and then
\* isActive is false; an active session carries no expiresAt.
C4_ScheduledIffExpiresAt ==
    \A s \in DOMAIN sessions :
        /\ Scheduled(s) <=> sessions[s].expiresAt # Undefined
        /\ Scheduled(s) => ~sessions[s].isActive
        /\ sessions[s].status = "active" => sessions[s].expiresAt = Undefined

\* a session created by loadSavedSession (its creator's row has no lastSeen) is
\* scheduled for deletion
C4_Witness ==
    \E s \in DOMAIN sessions :
        /\ Scheduled(s)
        /\ sessions[s].expiresAt > now
        /\ \E i \in RowsOf(s) : participants[i].lastSeen = Undefined

\* C5: a session whose status is scheduled_for_deletion has an empty activeUsers.
C5_ScheduledIsEmpty ==
    \A s \in DOMAIN sessions : Scheduled(s) => sessions[s].activeUsers = <<>>

\* C6: a sweep at time t over an active session all of whose participants are
\* stale (clock more than INACTIVE_THRESHOLD before t) leaves status =
\* scheduled_for_deletion, expiresAt = t + EXPIRY_DELAY, activeUsers = [] and
\* every participant with isActive = false.
C6_SweepSchedulesStaleSession ==
    [][\A s \in SessionIds :
          ( /\ s \in DOMAIN sessions
            /\ sessions[s].status = "active"
            /\ \A i \in RowsOf(s) : ~Fresh(participants[i], now)
            /\ (checkAllSessionsActivity \/ checkSessionActivity(s)) )
          => /\ sessions'[s].status = "scheduled_for_deletion"
             /\ sessions'[s].expiresAt = now + EXPIRY_DELAY
             /\ sessions'[s].activeUsers = <<>>
             /\ \A i \in RowsOf(s) : ~participants'[i].isActive]_vars

\* the cron sweep has just scheduled a session of several participants
C6_Witness ==
    /\ response.op = "checkAllSessionsActivity"
    /\ \E s \in DOMAIN sessions :
          /\ Scheduled(s)
          /\ sessions[s].expiresAt = now + EXPIRY_DELAY
          /\ sessions[s].activeUsers = <<>>
          /\ Cardinality(RowsOf(s)) >= 2
          /\ \A i \in RowsOf(s) : ~participants[i].isActive /\ ~Fresh(participants[i], now)

\* C7 as claimed: after a sweep-tick at time t every session with a participant
\* fresh at t is active with expiresAt unset, whatever its status before the tick.
C7_SweepAlwaysReturnsToActive ==
    [][checkAllSessionsActivity =>
          \A s \in DOMAIN sessions :
              FreshUsers(s) # {}
              => sessions'[s].status = "active" /\ sessions'[s].expiresAt = Undefined]_vars

\* C7 as amended: after a sweep-tick at time t a session that was active before
\* the tick and has a participant fresh at t is active with expiresAt unset; a
\* session that was scheduled_for_deletion before the tick is left as it was.
C7_SweepKeepsActive ==
    [][checkAllSessionsActivity =>
          \A s \in DOMAIN sessions :
              /\ (sessions[s].status = "active" /\ FreshUsers(s) # {})
                 => sessions'[s].status = "active" /\ sessions'[s].expiresAt = Undefined
              /\ Scheduled(s)
                 => sessions'[s] = sessions[s]
                    /\ \A i \in RowsOf(s) : participants'[i] = participants[i]]_vars

\* a sweep has run over a session scheduled earlier that has a fresh participant,
\* and the session is still scheduled
C7_Witness ==
    /\ response.op = "checkAllSessionsActivity"
    /\ \E s \in DOMAIN sessions :
          /\ Scheduled(s)
          /\ sessions[s].expiresAt < now + EXPIRY_DELAY
          /\ FreshUsers(s) # {}

\* C8: after a sweep-tick at time t over an active session with at least one
\* participant fresh at t, activeUsers holds exactly the users of the fresh rows,
\* each once, and every row's isActive equals its freshness at t.
C8_SweepRefreshesActiveUsers ==
    [][checkAllSessionsActivity =>
          \A s \in DOMAIN sessions :
              (sessions[s].status = "active" /\ FreshUsers(s) # {})
              => /\ Range(sessions'[s].activeUsers) = FreshUsers(s)
                 /\ Len(sessions'[s].activeUsers) = Cardinality(FreshUsers(s))
                 /\ \A i \in RowsOf(s) :
                       participants'[i].isActive = Fresh(participants[i], now)]_vars

\* a sweep has left an active session whose activeUsers names some but not all
\* of its participants
C8_Witness ==
    /\ response.op = "checkAllSessionsActivity"
    /\ \E s \in DOMAIN sessions :
          /\ sessions[s].status = "active"
          /\ sessions[s].activeUsers # <<>>
          /\ \E i \in RowsOf(s) :
                /\ ~participants[i].isActive
                /\ participants[i].userId \notin Range(sessions[s].activeUsers)
          /\ \A i \in RowsOf(s) :
                participants[i].isActive
                <=> participants[i].userId \in Range(sessions[s].activeUsers)

\* C9: a user who has left is not counted as live by a sweep-tick that runs next,
\* however soon after the leave.  When the last handler that ran is a successful
\* leaveSession, at time T = lastActivity, the rows with isActive = false and
\* lastSeen = T are those of users whose last call was that leave (a join or a
\* heartbeat would have set isActive, and a sweep clears it on stale rows only):
\* the sweep-tick leaves them with isActive = false and out of activeUsers.
C9_LeaverStaysOut ==
    [][(response = [op |-> "leaveSession", result |-> "ok"] /\ checkAllSessionsActivity)
       => \A s \in DOMAIN sessions : \A i \in RowsOf(s) :
              ( /\ ~participants[i].isActive
                /\ participants[i].userId \notin Range(sessions[s].activeUsers)
                /\ participants[i].lastSeen = sessions[s].lastActivity )
              => /\ ~participants'[i].isActive
                 /\ participants[i].userId \notin Range(sessions'[s].activeUsers)]_vars

\* C10: leaveSession(user) at time t removes user from activeUsers and sets the
\* user's row to isActive = false; if no other row is live (isActive and fresh
\* at t) the session becomes scheduled_for_deletion with expiresAt =
\* t + EXPIRY_DELAY, the other entries of activeUsers staying listed; if another
\* row is live, the status stays active and expiresAt stays unset.
C10_LeaveSchedulesWhenNoneLive ==
    [][\A s \in SessionIds, u \in Users :
          (s \in DOMAIN sessions /\ leaveSession(s, u))
          => /\ sessions'[s].activeUsers = Without(sessions[s].activeUsers, u)
             /\ u \notin Range(sessions'[s].activeUsers)
             /\ \A i \in RowsOf(s) :
                   participants[i].userId = u => ~participants'[i].isActive
             /\ IF \E i \in RowsOf(s) :
                       /\ participants[i].userId # u
                       /\ participants[i].isActive
                       /\ Fresh(participants[i], now)
                THEN /\ sessions'[s].status = "active"
                     /\ sessions'[s].expiresAt = Undefined
                ELSE /\ sessions'[s].status = "scheduled_for_deletion"
                     /\ sessions'[s].expiresAt = now + EXPIRY_DELAY]_vars

\* a leave has scheduled a session whose activeUsers still lists a stale user
C10_Witness ==
    /\ response.op = "leaveSession"
    /\ \E s \in DOMAIN sessions :
          /\ Scheduled(s)
          /\ sessions[s].expiresAt = now + EXPIRY_DELAY
          /\ \E i \in RowsOf(s) :
                /\ participants[i].userId \in Range(sessions[s].activeUsers)
                /\ participants[i].isActive
                /\ ~Fresh(participants[i], now)

\* C11: a heartbeat (participantHeartbeat or updateUserActivity) at time t from a
\* user who has a participant row in a scheduled_for_deletion session leaves the
\* session active with expiresAt unset, and that row with isActive = true and
\* lastSeen = t.
C11_HeartbeatReactivates ==
    [][\A s \in SessionIds, u \in Users :
          ( /\ s \in DOMAIN sessions
            /\ Scheduled(s)
            /\ FirstRow(s, u) # 0
            /\ (participantHeartbeat(s, u) \/ updateUserActivity(s, u)) )
          => /\ sessions'[s].status = "active"
             /\ sessions'[s].isActive
             /\ sessions'[s].expiresAt = Undefined
             /\ participants'[FirstRow(s, u)].isActive
             /\ participants'[FirstRow(s, u)].lastSeen = now]_vars

\* a heartbeat has just reactivated a session that a sweep had scheduled: the
\* session is active again with the activeUsers the sweep emptied
C11_Witness ==
    /\ response.op \in {"participantHeartbeat", "updateUserActivity"}
    /\ \E s \in DOMAIN sessions :
          /\ sessions[s].status = "active"
          /\ sessions[s].expiresAt = Undefined
          /\ sessions[s].activeUsers = <<>>
          /\ sessions[s].lastActivity = now
          /\ \E i \in RowsOf(s) :
                participants[i].isActive /\ participants[i].lastSeen = now

\* C12: joinSession by any user on a session that is scheduled_for_deletion and
\* not yet deleted succeeds, and afterwards the session is active, expiresAt is
\* unset and the joiner is in activeUsers, whatever activeUsers held.
C12_JoinScheduledSucceeds ==
    [][\A s \in SessionIds, u \in Users :
          ( /\ s \in DOMAIN sessions
            /\ Scheduled(s)
            /\ joinSession(s, u) )
          => /\ response' = [op |-> "joinSession", result |-> "ok"]
             /\ sessions'[s].status = "active"
             /\ sessions'[s].expiresAt = Undefined
             /\ u \in Range(sessions'[s].activeUsers)]_vars

\* C13: when the expiry sweep runs at a time now with expiresAt < now for a
\* scheduled_for_deletion session, the session record and every participant, chat
\* message and operation-log row of it are gone afterwards, they stay gone, and any
\* later getSession or joinSession for it fails with "Session not found".
C13_ExpiryCascades ==
    [][\A s \in SessionIds :
          /\ (s \in DOMAIN sessions /\ PastDeadline(s) /\ cleanupExpiredSessions)
             => Gone(s)'
          /\ Deleted(s) => Gone(s)'
          /\ (Deleted(s) /\ getSession(s))
             => response' = [op |-> "getSession", result |-> "Session not found"]
          /\ \A u \in Users :
                (Deleted(s) /\ joinSession(s, u))
                => response' = [op |-> "joinSession", result |-> "Session not found"]]_vars

\* a getSession has failed on a session that the expiry sweep deleted
C13_Witness ==
    /\ response = [op |-> "getSession", result |-> "Session not found"]
    /\ \E s \in SessionIds : Deleted(s) /\ Gone(s)

\* C14: the expiry sweep deletes a session only if its status is
\* scheduled_for_deletion and its expiresAt is strictly less than now; every other
\* session, with its participants, messages and operation-log rows, is unchanged.
C14_ExpirySparesTheRest ==
    [][cleanupExpiredSessions =>
          \A s \in DOMAIN sessions :
              IF PastDeadline(s)
              THEN s \notin DOMAIN sessions'
              ELSE /\ s \in DOMAIN sessions'
                   /\ sessions'[s] = sessions[s]
                   /\ ParticipantsOf(s)' = ParticipantsOf(s)
                   /\ MessagesOf(s)' = MessagesOf(s)
                   /\ OperationsOf(s)' = OperationsOf(s)]_vars

\* the expiry sweep has run at the very deadline of a scheduled session and has
\* left it in place with its chat message and its logged operation
C14_Witness ==
    /\ response.op = "cleanupExpiredSessions"
    /\ \E s \in DOMAIN sessions :
          /\ Scheduled(s)
          /\ sessions[s].expiresAt = now
          /\ MessagesOf(s) # <<>>
          /\ OperationsOf(s) # <<>>

\* a row, a session without their timestamp fields
NoStamps(p) == [p EXCEPT !.lastSeen = Undefined, !.lastActive = Undefined]
NoActivity(session) == [session EXCEPT !.lastActivity = Undefined]

\* C16: a heartbeat from a live participant (row isActive and fresh, which is
\* what a first heartbeat leaves) changes nothing but timestamps: status,
\* expiresAt, activeUsers, every isActive and permission, and the number of rows
\* are as before, so N heartbeats in a row leave what one leaves.
C16_HeartbeatIdempotent ==
    [][\A s \in SessionIds, u \in Users :
          ( /\ s \in DOMAIN sessions
            /\ FirstRow(s, u) # 0
            /\ participants[FirstRow(s, u)].isActive
            /\ Fresh(participants[FirstRow(s, u)], now)
            /\ participantHeartbeat(s, u) )
          => /\ NoActivity(sessions'[s]) = NoActivity(sessions[s])
             /\ sessions'[s].status = "active"
             /\ Len(participants') = Len(participants)
             /\ \A i \in 1..Len(participants) :
                   NoStamps(participants'[i]) = NoStamps(participants[i])
             /\ participants'[FirstRow(s, u)].isActive
             /\ Fresh(participants'[FirstRow(s, u)], now)]_vars

\* a heartbeat has run for a read-only member of an active session (in this
\* specification a user listed in activeUsers had isActive = true before the call)
C16_Witness ==
    /\ response = [op |-> "participantHeartbeat", result |-> "ok"]
    /\ now > 1
    /\ \E s \in DOMAIN sessions : \E i \in RowsOf(s) :
          /\ sessions[s].status = "active"
          /\ sessions[s].lastActivity = now
          /\ participants[i].userId \in Range(sessions[s].activeUsers)
          /\ participants[i].permission = "read"
          /\ participants[i].isActive
          /\ participants[i].lastSeen = now

\* C17: updateSessionCode called with the code the session already stores appends
\* no operation-log entry, operation descriptor or not, and changes neither the
\* session's code nor its lastActivity.
C17_SameCodeIsNoOp ==
    [][\A s \in SessionIds, u \in Users, c \in CodeChoices, o \in OperationChoices :
          ( /\ s \in DOMAIN sessions
            /\ sessions[s].code = c
            /\ updateSessionCode(s, u, c, o) )
          => /\ operations' = operations
             /\ sessions' = sessions]_vars

\* an accepted updateSessionCode has left lastActivity behind the clock: its code
\* was the stored one (the caller's row shows the call, lastActive = now)
C17_Witness ==
    /\ response = [op |-> "updateSessionCode", result |-> "ok"]
    /\ \E s \in DOMAIN sessions :
          /\ sessions[s].lastActivity < now
          /\ sessions[s].code # DefaultCode
          /\ \E i \in RowsOf(s) :
                participants[i].lastActive = now /\ participants[i].lastSeen < now

\* C18: updateSessionCode by a caller who has no participant row in the session,
\* or whose row's permission is not write, fails with "Permission denied" and
\* changes neither the stored code, nor lastActivity, nor the operation log.
C18_WriteNeedsPermission ==
    [][\A s \in SessionIds, u \in Users, c \in CodeChoices, o \in OperationChoices :
          ( /\ s \in DOMAIN sessions
            /\ \/ FirstRow(s, u) = 0
               \/ participants[FirstRow(s, u)].permission # "write"
            /\ updateSessionCode(s, u, c, o) )
          => /\ response' = [op |-> "updateSessionCode", result |-> "Permission denied"]
             /\ UNCHANGED <<sessions, participants, operations>>]_vars

\* a code update was refused in a session where every user has a row: the caller
\* is one the owner has set to read
C18_Witness ==
    /\ response = [op |-> "updateSessionCode", result |-> "Permission denied"]
    /\ \E s \in DOMAIN sessions :
          /\ \A u \in ContentUsers : FirstRow(s, u) # 0
          /\ \E i \in RowsOf(s) : participants[i].permission = "read"

\* C19: after each accepted updateSessionCode the stored code is that call's code
\* argument in full, and no other handler changes the stored code: it always
\* equals the argument of the latest accepted call, whoever made it.
C19_LastWriterWins ==
    [][\A s \in SessionIds :
          /\ \A u \in Users, c \in CodeChoices, o \in OperationChoices :
                ( /\ s \in DOMAIN sessions
                  /\ updateSessionCode(s, u, c, o)
                  /\ response'.result = "ok" )
                => sessions'[s].code = c
          /\ ( /\ s \in DOMAIN sessions
               /\ s \in DOMAIN sessions'
               /\ sessions'[s].code # sessions[s].code )
             => \E u \in Users, c \in CodeChoices, o \in OperationChoices :
                   updateSessionCode(s, u, c, o) /\ sessions'[s].code = c]_vars

\* the code was changed (the logged operation) and a later accepted call by
\* another writer has put the first text back
C19_Witness ==
    /\ response = [op |-> "updateSessionCode", result |-> "ok"]
    /\ \E s \in DOMAIN sessions :
          /\ sessions[s].code = DefaultCode
          /\ sessions[s].lastActivity = now
          /\ OperationsOf(s) # <<>>
          /\ \E i \in RowsOf(s) :
                /\ participants[i].userId # OperationsOf(s)[1].userId
                /\ participants[i].lastActive = now
                /\ participants[i].lastSeen < now

\* C15: if no client calls any operation on a session after some point (all
\* clients vanished without a leave), then, with time advancing and both periodic
\* jobs running again and again, a session that is still active is eventually
\* scheduled for deletion by the liveness sweep, and the session is eventually
\* deleted by the expiry sweep together with all its child rows.
C15_AbandonedSessionIsCollected ==
    \A s \in SessionIds :
        /\ (s \in DOMAIN sessions /\ now > QuietFrom /\ sessions[s].status = "active")
              ~> (s \in DOMAIN sessions /\ Scheduled(s))
        /\ (s \in DOMAIN sessions /\ now > QuietFrom) ~> (Deleted(s) /\ Gone(s))

\* the expiry sweep has deleted an abandoned session at the latest time the
\* schedule allows for a session whose last heartbeat came at QuietFrom
C15_Witness ==
    /\ response.op = "cleanupExpiredSessions"
    /\ now = QuietHorizon
    /\ \E s \in SessionIds : Deleted(s) /\ Gone(s)

\* every client is at rest: no pending timeout, no mutation awaiting its result,
\* no cursor restore pending, and the latest stored code has been delivered
Quiescent ==
    \A u \in DOMAIN clients :
        /\ clients[u].timer = NoTimer
        /\ clients[u].inflight = <<>>
        /\ ~clients[u].isUpdatingFromRemote
        /\ clients[u].seen = sessions[EditedSession].code

\* C20: once all users have stopped editing, every pending flush has been sent
\* and answered and every client has been notified of the latest stored code, the
\* local buffer of every client equals the stored code.
C20_Converges ==
    (clients # <<>> /\ Quiescent)
    => \A u \in DOMAIN clients : clients[u].code = sessions[EditedSession].code

----------------------------------------------------------------------------
(* Claims C21..C30 *)

\* C30: in every reachable state a session's activeUsers holds exactly the user
\* ids whose participant row of that session has isActive = true.
C30_ActiveUsersMirrorsRows ==
    \A s \in DOMAIN sessions :
        Range(sessions[s].activeUsers)
            = {participants[i].userId : i \in {j \in RowsOf(s) : participants[j].isActive}}

\* C29: a step that finds a session scheduled_for_deletion and leaves it
\* scheduled_for_deletion leaves its expiresAt where it was: only a reactivation
\* or the deletion of the session ends the deadline, and a repeated leaveSession
\* does not push it later.
C29_DeadlineStays ==
    [][\A s \in DOMAIN sessions :
          ( /\ Scheduled(s)
            /\ s \in DOMAIN sessions'
            /\ sessions'[s].status = "scheduled_for_deletion" )
          => sessions'[s].expiresAt = sessions[s].expiresAt]_vars

\* C23: a createSession that succeeds leaves a session with status = active, no
\* expiresAt and activeUsers = [creator], and exactly one participant row of that
\* session: the creator's, with permission write and isActive = true.
C23_CreateYieldsOwnedActiveSession ==
    [][\A creatorId \in Creators : \A maxUsers \in MaxUsersChoices :
          (createSession(creatorId, maxUsers) /\ response'.result = "ok")
          => /\ nextId \in DOMAIN sessions' /\ nextId \notin DOMAIN sessions
             /\ sessions'[nextId].status = "active"
             /\ sessions'[nextId].expiresAt = Undefined
             /\ sessions'[nextId].activeUsers = <<creatorId>>
             /\ sessions'[nextId].creatorId = creatorId
             /\ \E i \in 1..Len(participants') :
                   /\ {j \in 1..Len(participants') :
                          participants'[j].sessionId = nextId} = {i}
                   /\ participants'[i].userId = creatorId
                   /\ participants'[i].permission = "write"
                   /\ participants'[i].isActive]_vars

\* a createSession has just succeeded
C23_Witness ==
    /\ response = [op |-> "createSession", result |-> "ok"]
    /\ \E s \in DOMAIN sessions :
          /\ s = nextId - 1
          /\ sessions[s].lastActivity = now
          /\ Len(ParticipantsOf(s)) = 1

\* C28: a joinSession that fails, with the capacity error or with session not
\* found, leaves every record as it was: a join refused for capacity on a
\* scheduled_for_deletion session leaves it scheduled, with its expiresAt, and
\* inserts or reactivates no participant row.
C28_FailedJoinChangesNothing ==
    [][\A s \in SessionIds, u \in Users :
          (joinSession(s, u) /\ response'.result # "ok")
          => /\ response'.result \in {"Session is full", "Session not found"}
             /\ UNCHANGED <<sessions, participants, operations, messages>>]_vars

\* a join has just been refused for capacity on a scheduled session, which still
\* has its deadline and no row for anybody outside activeUsers
C28_Witness ==
    /\ response = [op |-> "joinSession", result |-> "Session is full"]
    /\ \E s \in DOMAIN sessions :
          /\ Scheduled(s)
          /\ ~sessions[s].isActive
          /\ sessions[s].expiresAt # Undefined
          /\ \E u \in Users :
                u \notin Range(sessions[s].activeUsers) /\ FirstRow(s, u) = 0

C25_OnlyCreatorDeletes ==
    [][\A s \in SessionIds, u \in ContentUsers :
          deleteSession(s, u)
          => IF s \in DOMAIN sessions /\ sessions[s].creatorId = u
             THEN /\ response' = [op |-> "deleteSession", result |-> "ok"]
                  /\ Gone(s)'
             ELSE /\ response'.result # "ok"
                  /\ UNCHANGED <<sessions, participants, operations, messages>>]_vars

\* the creator has just deleted the session, before any deadline could have
\* passed
C25_Witness ==
    /\ response = [op |-> "deleteSession", result |-> "ok"]
    /\ Deleted(1)
    /\ now <= EXPIRY_DELAY

\* C22: in every reachable state there is at most one participant row per
\* (sessionId, userId).  A joinSession of a user who has a row, after a leave or
\* after a sweep cleared its flag, succeeds by setting that row active again and
\* inserts none; and as long as a session exists, every row of it stays: rows
\* are removed only together with their session.
C22_OneRowPerUser ==
    /\ [](\A i, j \in 1..Len(participants) :
            ( /\ participants[i].sessionId = participants[j].sessionId
              /\ participants[i].userId = participants[j].userId ) => i = j)
    /\ [][\A s \in DOMAIN sessions :
            /\ \A u \in ContentUsers :
                  ( /\ joinSession(s, u)
                    /\ response'.result = "ok"
                    /\ \E i \in RowsOf(s) : participants[i].userId = u )
                  => /\ Len(participants') = Len(participants)
                     /\ \E i \in RowsOf(s) :
                           participants'[i].userId = u /\ participants'[i].isActive
            /\ s \in DOMAIN sessions'
                  => \A i \in RowsOf(s) : \E j \in 1..Len(participants') :
                         /\ participants'[j].sessionId = s
                         /\ participants'[j].userId = participants[i].userId]_vars

\* the creator, whose row dates from the creation of the session, has just
\* joined it again at a later time: the session has that one row, active again
C22_Witness ==
    /\ response = [op |-> "joinSession", result |-> "ok"]
    /\ \E s \in DOMAIN sessions :
          /\ sessions[s].activeUsers = <<sessions[s].creatorId>>
          /\ Len(ParticipantsOf(s)) = 1
          /\ \E i \in RowsOf(s) :
                /\ participants[i].userId = sessions[s].creatorId
                /\ participants[i].isActive
                /\ participants[i].lastSeen = now
                /\ participants[i].lastActive = now
          /\ now > 1

\* C27: teardown is terminal.  In every reachable state every participant row,
\* chat message and operation-log row refers to an existing session; and once a
\* session has been deleted, by the expiry sweep or by its owner, no step
\* brings it back: a join, a leave and a code update for it fail with "Session
\* not found", a chat message for it is rejected, and each of these calls and a
\* heartbeat for it leave every table as it was.
C27_TeardownIsTerminal ==
    /\ [](/\ \A i \in 1..Len(participants) : participants[i].sessionId \in DOMAIN sessions
          /\ \A i \in 1..Len(messages) : messages[i].sessionId \in DOMAIN sessions
          /\ \A i \in 1..Len(operations) : operations[i].sessionId \in DOMAIN sessions)
    /\ [][\A s \in SessionIds :
            Deleted(s)
            => /\ s \notin DOMAIN sessions'
               /\ \A u \in ContentUsers :
                     /\ ( \/ joinSession(s, u)
                          \/ leaveSession(s, u)
                          \/ \E c \in CodeChoices : updateSessionCode(s, u, c, "insert") )
                        => /\ response'.result = "Session not found"
                           /\ UNCHANGED <<sessions, participants, operations, messages>>
                     /\ (\E m \in MessageChoices : sendChatMessage(s, u, m))
                        => /\ response'.result # "ok"
                           /\ UNCHANGED <<sessions, participants, operations, messages>>
                     /\ participantHeartbeat(s, u)
                        => UNCHANGED <<sessions, participants, operations, messages>>]_vars

\* a code update has just been refused for a session that has been deleted
C27_Witness ==
    /\ Deleted(1)
    /\ response = [op |-> "updateSessionCode", result |-> "Session not found"]
    /\ participants = <<>> /\ messages = <<>> /\ operations = <<>>

\* C24: in every reachable state each user is the creator of at most
\* SESSION_LIMIT sessions, the sessions scheduled for deletion included; a
\* createSession or a loadSavedSession of a user who owns that many fails with the
\* session-limit error and inserts neither a session nor a participant row.
C24_AtMostTwoOwned ==
    /\ [](\A u \in ContentUsers :
            Cardinality({s \in DOMAIN sessions : sessions[s].creatorId = u})
                <= SESSION_LIMIT)
    /\ [][\A u \in ContentUsers, m \in MaxUsersChoices :
            ( /\ Cardinality({s \in DOMAIN sessions : sessions[s].creatorId = u})
                     >= SESSION_LIMIT
              /\ \/ createSessionHandler(u, m)
                 \/ loadSavedSessionHandler(u, NewSession(u, m, now)) )
            => /\ response'.result = "session limit"
               /\ UNCHANGED <<nextId, sessions, participants>>]_vars

\* a loadSavedSession has just been refused to a user whose two sessions are
\* both scheduled for deletion
C24_Witness ==
    /\ response = [op |-> "loadSavedSession", result |-> "session limit"]
    /\ \E u \in ContentUsers :
          LET owned == {s \in DOMAIN sessions : sessions[s].creatorId = u}
          IN /\ Cardinality(owned) = SESSION_LIMIT
             /\ \A s \in owned : Scheduled(s)

\* C26: a saveSessionToCollection of a live session by a user who has a saved
\* row of that session fails with DUPLICATE_SAVE, however many saved rows the
\* user has, and inserts nothing; no two saved rows have the same userId and
\* originalSessionId.
C26_RepeatSaveIsDuplicate ==
    /\ [](\A j, k \in DOMAIN savedSessions :
            ( /\ savedSessions[j].userId = savedSessions[k].userId
              /\ savedSessions[j].originalSessionId = savedSessions[k].originalSessionId )
            => j = k)
    /\ [][\A s \in DOMAIN sessions, u \in ContentUsers :
            ( /\ \E k \in DOMAIN savedSessions :
                    /\ savedSessions[k].userId = u
                    /\ savedSessions[k].originalSessionId = s
              /\ saveSessionToCollection(s, u) )
            => /\ response'.result = "DUPLICATE_SAVE"
               /\ UNCHANGED savedSessions]_vars

====
